---------------------------- MODULE Spec2Model ----------------------------
(***************************************************************************)
(* Verification model of the mh-zx-driver crate.                           *)
(*                                                                         *)
(*   read_package   src/src/read_package.rs  the framing reader            *)
(*   checksum, ...  src/src/measurement.rs   the packet codec              *)
(*   Error          src/src/error.rs         the error kinds               *)
(*                                                                         *)
(* Sequences are 1-based here and 0-based in the source: a slice           *)
(* buf[lo..hi] of the source is the record [lo |-> lo, hi |-> hi] and its  *)
(* bytes are SubSeq(buf, lo + 1, hi).                                      *)
(***************************************************************************)
EXTENDS Integers, Sequences, FiniteSets, TLC

VARIABLES
    pc,        \* position of the running call: see PcValues
    caller,    \* who invoked read_package: "direct", "read_co2", "read_co2_raw"
    buf,       \* read_package: the scratch buffer `buf`
    package,   \* read_package: the candidate `package`
    needed,    \* read_package: `needed`
    body,      \* read_package: the slice `body` of buf, [lo, hi]
    ret,       \* the value read_package returned (or its panic)
    txres,     \* the value the transaction returned
    rxlog,     \* history: the outcome of every rx.read issued so far
    txlog,     \* history: the steps the transaction has run
    dropped,   \* history: stream positions of the bytes thrown away by Greater
    pkgPos,    \* history: stream position of each byte of `package`
    cp,        \* codec: the packet under examination
    cres,      \* codec: what the codec functions returned for cp
    op,        \* Sensor: the closure of write_packet_op / read_packet_op
    fut,       \* nb_fn: the future and the function it wraps
    trace,     \* history: the control states this invocation went through
    first      \* history: what an earlier invocation read and went through

vars ==
    << pc, caller, buf, package, needed, body, ret, txres, rxlog, txlog,
       dropped, pkgPos, cp, cres, op, fut, trace, first >>

frameVars ==
    << buf, package, needed, body, ret, rxlog, dropped, pkgPos, trace, first >>

codecVars ==
    << cp, cres >>

nbVars ==
    << op, fut >>

---------------------------------------------------------------------------
(* Program constants                                                       *)

PAYLOAD_SIZE ==
    9

BUF_FACTOR ==
    5

BufLen ==
    BUF_FACTOR * PAYLOAD_SIZE

START_MARKER ==
    255

---------------------------------------------------------------------------
(* Bounds of the exploration                                               *)

MaxChunks ==
    3

MaxCauses ==
    2

Causes ==
    1 .. MaxCauses

---------------------------------------------------------------------------
(* Small helpers on sequences                                              *)

Max(a, b) ==
    IF a > b THEN a ELSE b

Min(a, b) ==
    IF a < b THEN a ELSE b

SaturatingSub(a, b) ==
    IF a >= b THEN a - b ELSE 0

Slice(s, lo, hi) ==
    SubSeq(s, lo + 1, hi)

BodyLen(b) ==
    b.hi - b.lo

BodyBytes(bf, b) ==
    Slice(bf, b.lo, b.hi)

ZeroBuf ==
    [i \in 1 .. BufLen |-> 0]

(* rx.read(&mut buf): the first n bytes of buf are overwritten, the rest   *)
(* of buf keeps what an earlier read left there.                           *)
CopyIntoBuf(bf, bytes) ==
    [i \in 1 .. BufLen |-> IF i <= Len(bytes) THEN bytes[i] ELSE bf[i]]

(* Mutation: the scan also stops at a byte 0x01.                            *)
IsStart_OrOne(byte) ==
    byte = START_MARKER \/ byte = 1

(* The test of the scans, negated: |byte| byte != 0xff                     *)
IsStart(byte) ==
    byte = START_MARKER

(* s.iter().rev().skip_while(|b| *b != 0xff).count()                       *)
RECURSIVE RevSkipCount(_)
RevSkipCount(s) ==
    IF Len(s) = 0
    THEN 0
    ELSE IF ~IsStart(s[Len(s)])
         THEN RevSkipCount(SubSeq(s, 1, Len(s) - 1))
         ELSE Len(s)

(* The slice the initial scan searches for a start marker (line 31).       *)
ScanSlice(bf, n) ==
    bf

---------------------------------------------------------------------------
(* Values returned                                                         *)

NoRet ==
    [kind |-> "None", pkt |-> << >>, err |-> "", cause |-> 0]

OkRet(p) ==
    [kind |-> "Ok", pkt |-> p, err |-> "", cause |-> 0]

ErrRet(e, c) ==
    [kind |-> "Err", pkt |-> << >>, err |-> e, cause |-> c]

PanicRet ==
    [kind |-> "Panic", pkt |-> << >>, err |-> "", cause |-> 0]

(* Outcomes of one rx.read: Ok(n) with the n bytes delivered, or Err.      *)
RxOk(bytes) ==
    [kind |-> "Ok", bytes |-> bytes, cause |-> 0]

RxErr(c) ==
    [kind |-> "Err", bytes |-> << >>, cause |-> c]

RECURSIVE StreamOf(_)
StreamOf(log) ==
    IF Len(log) = 0
    THEN << >>
    ELSE StreamOf(SubSeq(log, 1, Len(log) - 1)) \o log[Len(log)].bytes

Stream ==
    StreamOf(rxlog)

(* Stream positions (0-based) of the bytes buf[lo..hi] of the read that    *)
(* started at stream position base.                                        *)
PosOf(base, lo, hi) ==
    [i \in 1 .. (hi - lo) |-> base + lo + i - 1]

SeqToSet(s) ==
    {s[i] : i \in 1 .. Len(s)}

---------------------------------------------------------------------------
(* The packet codec, src/src/measurement.rs                                *)

(* u8::wrapping_add                                                        *)
WrappingAdd(a, b) ==
    (a + b) % 256

(* !x on a u8: every one of the 8 bits is flipped                          *)
RECURSIVE FlipBits(_, _)
FlipBits(x, w) ==
    IF w = 0
    THEN 0
    ELSE (1 - (x % 2)) + 2 * FlipBits(x \div 2, w - 1)

Not8(x) ==
    FlipBits(x, 8)

(* iter().skip(a).take(b)                                                  *)
SkipTake(s, a, b) ==
    SubSeq(s, a + 1, Min(Len(s), a + b))

(* fold(0u8, |s, i| s.wrapping_add(i))                                     *)
RECURSIVE FoldWrappingAdd(_, _)
FoldWrappingAdd(acc, s) ==
    IF Len(s) = 0
    THEN acc
    ELSE FoldWrappingAdd(WrappingAdd(acc, s[1]), SubSeq(s, 2, Len(s)))

(* Mutation: the checksum also runs over the checksum byte.                *)
ChecksumBytes_Take8(bytes) ==
    SkipTake(bytes, 1, 8)

(* Mutation: the checksum stops one byte early.                            *)
ChecksumBytes_Take6(bytes) ==
    SkipTake(bytes, 1, 6)

(* The bytes the checksum runs over: bytes.iter().skip(1).take(7)          *)
ChecksumBytes(bytes) ==
    SkipTake(bytes, 1, 7)

checksum(bytes) ==
    WrappingAdd(Not8(FoldWrappingAdd(0, ChecksumBytes(bytes))), 1)

(* Mutation: the checksum is compared with the byte before the last.       *)
checksum_valid_Byte7(bytes) ==
    checksum(bytes) = bytes[8]

checksum_valid(bytes) ==
    checksum(bytes) = bytes[9]

(* Mutation: the two bytes are taken in little-endian order.               *)
FromBeBytes_Little(h, l) ==
    l * 256 + h

(* u16::from_be_bytes([h, l])                                              *)
FromBeBytes(h, l) ==
    h * 256 + l

(* Mutation: the decoder also rejects a packet whose checksum is wrong.    *)
Measurement_parse_response_Checked(p) ==
    IF p[1] # 255 \/ p[2] # 134 \/ ~checksum_valid(p)
    THEN [kind |-> "Err", err |-> "InvalidPacket"]
    ELSE [kind |-> "Ok",
          co2 |-> FromBeBytes(p[3], p[4]),
          temp |-> p[5],
          calib_ticks |-> p[6],
          calib_cycles |-> p[7]]

(* Mutation: the destructuring pattern lacks one leading placeholder.      *)
Measurement_parse_response_Shifted(p) ==
    IF p[1] # 255 \/ p[2] # 134
    THEN [kind |-> "Err", err |-> "InvalidPacket"]
    ELSE [kind |-> "Ok",
          co2 |-> FromBeBytes(p[2], p[3]),
          temp |-> p[4],
          calib_ticks |-> p[5],
          calib_cycles |-> p[6]]

(* Measurement::parse_response                                             *)
Measurement_parse_response(p) ==
    IF p[1] # 255 \/ p[2] # 134
    THEN [kind |-> "Err", err |-> "InvalidPacket"]
    ELSE [kind |-> "Ok",
          co2 |-> FromBeBytes(p[3], p[4]),
          temp |-> p[5],
          calib_ticks |-> p[6],
          calib_cycles |-> p[7]]

(* lib.rs, Packet::checksum:                                               *)
(* (!self.0.iter().skip(1).take(7).fold(0u8, wrapping_add)).wrapping_add(1) *)
Packet_checksum(p) ==
    WrappingAdd(Not8(FoldWrappingAdd(0, SkipTake(p, 1, 7))), 1)

(* lib.rs, Packet::checksum_valid: self.checksum() == self.0[8]            *)
Packet_checksum_valid(p) ==
    Packet_checksum(p) = p[9]

InvalidResponse(p) ==
    [kind |-> "Err", err |-> "InvalidResponse", pkt |-> p]

(* Mutation: the conversion does not look at the checksum.                 *)
Measurement_try_from_Unchecked(p) ==
    IF p[1] # 255 \/ p[2] # 134
    THEN InvalidResponse(p)
    ELSE [kind |-> "Ok",
          co2 |-> FromBeBytes(p[3], p[4]),
          temp |-> p[5],
          calib_ticks |-> p[6],
          calib_cycles |-> p[7]]

(* lib.rs, impl TryFrom<Packet> for Measurement                            *)
Measurement_try_from(p) ==
    IF p[1] # 255 \/ p[2] # 134 \/ ~Packet_checksum_valid(p)
    THEN InvalidResponse(p)
    ELSE [kind |-> "Ok",
          co2 |-> FromBeBytes(p[3], p[4]),
          temp |-> p[5],
          calib_ticks |-> p[6],
          calib_cycles |-> p[7]]

(* lib.rs, impl TryFrom<Packet> for RawMeasurement                         *)
RawMeasurement_try_from(p) ==
    IF p[1] # 255 \/ p[2] # 133 \/ ~Packet_checksum_valid(p)
    THEN InvalidResponse(p)
    ELSE [kind |-> "Ok",
          adc_temp |-> FromBeBytes(p[3], p[4]),
          co2 |-> FromBeBytes(p[5], p[6]),
          adc_min_light |-> FromBeBytes(p[7], p[8])]

(* Mutation: the raw decoder tests for the discriminator of the final     *)
(* reading.                                                                *)
RawMeasurement_parse_response_Cmd86(p) ==
    IF p[1] # 255 \/ p[2] # 134
    THEN [kind |-> "Err", err |-> "InvalidPacket"]
    ELSE [kind |-> "Ok",
          adc_temp |-> FromBeBytes(p[3], p[4]),
          co2 |-> FromBeBytes(p[5], p[6]),
          adc_min_light |-> FromBeBytes(p[7], p[8])]

(* RawMeasurement::parse_response                                          *)
RawMeasurement_parse_response(p) ==
    IF p[1] # 255 \/ p[2] # 133
    THEN [kind |-> "Err", err |-> "InvalidPacket"]
    ELSE [kind |-> "Ok",
          adc_temp |-> FromBeBytes(p[3], p[4]),
          co2 |-> FromBeBytes(p[5], p[6]),
          adc_min_light |-> FromBeBytes(p[7], p[8])]

---------------------------------------------------------------------------
(* read_package, src/src/read_package.rs lines 12-80                       *)

(* Mutation: a failed read is retried.                                     *)
OnReadErr_Retry(at, c) ==
    [pc |-> at, ret |-> NoRet]

(* rx.read(..).await.map_err(Error::Reading)? : where the call goes when   *)
(* the read at position `at` fails with cause c.                           *)
OnReadErr(at, c) ==
    [pc |-> "returned", ret |-> ErrRet("Reading", c)]

(* Mutation: the end-of-stream check is missing at the read of Less.       *)
IsEof_OuterOnly(at, n) ==
    at = "outer_read" /\ n = 0

(* if n == 0 { return Err(Error::ReadingEOF); }  at either read            *)
IsEof(at, n) ==
    n = 0

(* Mutation: the start marker's index is taken to be the count itself.     *)
OffsetOf_NoDecrement(package_start) ==
    package_start

(* let offset = if package_start == 0 { continue } else { package_start - 1 } *)
OffsetOf(package_start) ==
    package_start - 1

(* while needed > 0 { ... }  followed by the outer loop                    *)
LoopTop(nd) ==
    IF nd > 0 THEN "match" ELSE "outer_read"

(* heapless Vec::extend_from_slice: Err when the capacity is exceeded      *)
ExtendFits(pkg, bytes) ==
    Len(pkg) + Len(bytes) <= PAYLOAD_SIZE

(* Mutation: the candidate is not emptied.                                 *)
Clear_Keep(pkg) ==
    pkg

(* package.clear()                                                         *)
Clear(pkg) ==
    << >>

(* Mutation: needed is recomputed from the full size, forgetting what the  *)
(* candidate already holds.                                                *)
LessNeeded_FromFull(nd, len) ==
    PAYLOAD_SIZE - len

(* needed -= body.len()                                                    *)
LessNeeded(nd, len) ==
    nd - len

(* body = &buf[..n]  after the read of the Less branch                     *)
InnerBody(n) ==
    [lo |-> 0, hi |-> n]

(* Mutation: needed keeps the value it had before the candidate was        *)
(* emptied.                                                                *)
NeededAfterClear_Stale(nd) ==
    nd

(* needed = PAYLOAD_SIZE  after package.clear()                            *)
NeededAfterClear(nd) ==
    PAYLOAD_SIZE

(* Mutation: the whole remaining body is searched.                         *)
RescanWindow_Whole(b) ==
    b

(* body = &body[body.len().saturating_sub(PAYLOAD_SIZE)..]                 *)
RescanWindow(b) ==
    [lo |-> b.lo + SaturatingSub(BodyLen(b), PAYLOAD_SIZE), hi |-> b.hi]

(* Stream position of buf[0] of the latest read.                           *)
CurBase ==
    Len(Stream) - Len(rxlog[Len(rxlog)].bytes)

Return(v) ==
    /\ ret' = v
    /\ pc' = "returned"

(* The control state a step of read_package leads to: where it stands,     *)
(* the slice `body`, needed, package.len(), the stream positions of the    *)
(* candidate's bytes and the kind of result; no byte value is part of it.  *)
CtlNext ==
    [pc |-> pc', body |-> body', needed |-> needed', plen |-> Len(package'),
     pos |-> pkgPos', kind |-> ret'.kind, err |-> ret'.err,
     cause |-> ret'.cause]

(* Line 26-39: the read at the top of the outer loop, the end-of-stream    *)
(* check, the scan for the start marker and the slice `body`.              *)
OuterRead(r) ==
    /\ pc = "outer_read"
    /\ rxlog' = Append(rxlog, r)
    /\ UNCHANGED << caller, txres, txlog, codecVars, nbVars, first, package, needed,
                    dropped, pkgPos >>
    /\ IF r.kind = "Err"
       THEN /\ pc' = OnReadErr("outer_read", r.cause).pc
            /\ ret' = OnReadErr("outer_read", r.cause).ret
            /\ UNCHANGED << buf, body >>
       ELSE LET n == Len(r.bytes)
                nbuf == CopyIntoBuf(buf, r.bytes)
                package_start == RevSkipCount(ScanSlice(nbuf, n))
                offset == OffsetOf(package_start)
            IN  /\ buf' = nbuf
                /\ IF IsEof("outer_read", n)
                   THEN /\ Return(ErrRet("ReadingEOF", 0))
                        /\ UNCHANGED body
                   ELSE IF package_start = 0
                   THEN /\ pc' = "outer_read"
                        /\ UNCHANGED << ret, body >>
                   ELSE IF offset > n
                   THEN /\ Return(PanicRet)
                        /\ UNCHANGED body
                   ELSE /\ body' = [lo |-> offset, hi |-> n]
                        /\ pc' = LoopTop(needed)
                        /\ UNCHANGED ret
    /\ trace' = Append(trace, CtlNext)

(* Line 43-50: Ordering::Equal                                             *)
MatchEqual ==
    /\ pc = "match"
    /\ BodyLen(body) = needed
    /\ UNCHANGED << caller, txres, txlog, codecVars, nbVars, first, buf, body, needed,
                    rxlog, dropped >>
    /\ IF ~ExtendFits(package, BodyBytes(buf, body))
       THEN /\ Return(PanicRet)
            /\ UNCHANGED << package, pkgPos >>
       ELSE LET full == package \o BodyBytes(buf, body)
            IN  /\ package' = full
                /\ pkgPos' = pkgPos \o PosOf(CurBase, body.lo, body.hi)
                /\ IF Len(full) = PAYLOAD_SIZE
                   THEN Return(OkRet(full))
                   ELSE Return(PanicRet)
    /\ trace' = Append(trace, CtlNext)

(* Line 51-56: Ordering::Less up to the read                               *)
MatchLess ==
    /\ pc = "match"
    /\ BodyLen(body) < needed
    /\ UNCHANGED << caller, txres, txlog, codecVars, nbVars, first, buf, body, rxlog,
                    dropped >>
    /\ IF ~ExtendFits(package, BodyBytes(buf, body))
       THEN /\ Return(PanicRet)
            /\ UNCHANGED << package, pkgPos, needed >>
       ELSE /\ package' = package \o BodyBytes(buf, body)
            /\ pkgPos' = pkgPos \o PosOf(CurBase, body.lo, body.hi)
            /\ needed' = LessNeeded(needed, BodyLen(body))
            /\ pc' = "inner_read"
            /\ UNCHANGED ret
    /\ trace' = Append(trace, CtlNext)

(* Line 57-61: the read of the Less branch                                 *)
InnerRead(r) ==
    /\ pc = "inner_read"
    /\ rxlog' = Append(rxlog, r)
    /\ UNCHANGED << caller, txres, txlog, codecVars, nbVars, first, package, needed,
                    dropped, pkgPos >>
    /\ IF r.kind = "Err"
       THEN /\ pc' = OnReadErr("inner_read", r.cause).pc
            /\ ret' = OnReadErr("inner_read", r.cause).ret
            /\ UNCHANGED << buf, body >>
       ELSE LET n == Len(r.bytes)
            IN  /\ buf' = CopyIntoBuf(buf, r.bytes)
                /\ IF IsEof("inner_read", n)
                   THEN /\ Return(ErrRet("ReadingEOF", 0))
                        /\ UNCHANGED body
                   ELSE /\ body' = InnerBody(n)
                        /\ pc' = LoopTop(needed)
                        /\ UNCHANGED ret
    /\ trace' = Append(trace, CtlNext)

(* Mutation: the inner loop is left after every discard.                   *)
AfterRescan_AlwaysBreak(newest_starts, nd) ==
    "outer_read"

(* if newest_starts == 0 { break } else { body = ...; }  and the loop test *)
AfterRescan(newest_starts, nd) ==
    IF newest_starts = 0 THEN "outer_read" ELSE LoopTop(nd)

(* Line 63-76: Ordering::Greater                                           *)
MatchGreater ==
    /\ pc = "match"
    /\ BodyLen(body) > needed
    /\ UNCHANGED << caller, txres, txlog, codecVars, nbVars, first, buf, rxlog, ret >>
    /\ package' = Clear(package)
    /\ pkgPos' = Clear(pkgPos)
    /\ needed' = NeededAfterClear(needed)
    /\ LET window == RescanWindow(body)
           newest_starts == RevSkipCount(BodyBytes(buf, window))
           kept == IF newest_starts = 0
                   THEN window
                   ELSE [lo |-> window.lo + newest_starts - 1, hi |-> window.hi]
           keptFrom == IF newest_starts = 0 THEN body.hi ELSE kept.lo
       IN  /\ body' = kept
           /\ dropped' = dropped \cup SeqToSet(pkgPos)
                           \cup SeqToSet(PosOf(CurBase, body.lo, keptFrom))
           /\ pc' = AfterRescan(newest_starts, needed')
    /\ trace' = Append(trace, CtlNext)

---------------------------------------------------------------------------
(* The streams explored: every byte that is not a start marker carries a   *)
(* value fixed by its position in the stream, so that a packet shows which *)
(* bytes of the stream it is made of.                                      *)

Filler(pos) ==
    1 + (pos % 254)

ChunkLens ==
    {1, 4, 9, 10, 21, BufLen}

MarkerSpots(n) ==
    {k \in {0, 1, 5, n - PAYLOAD_SIZE, n - 1} : k >= 0 /\ k < n}

MarkerSets(n) ==
    {{}} \cup {{k} : k \in MarkerSpots(n)}

MakeChunk(base, n, M) ==
    [i \in 1 .. n |-> IF (i - 1) \in M THEN START_MARKER ELSE Filler(base + i - 1)]

Chunks ==
    {MakeChunk(Len(Stream), n, M) : <<n, M>> \in
        UNION {{<<n, M>> : M \in MarkerSets(n)} : n \in ChunkLens}}

RxOutcomes ==
    {RxOk(c) : c \in
                     IF Len(rxlog) < MaxChunks
                     THEN Chunks ELSE {}}
      \cup (IF Len(rxlog) <= MaxChunks
            THEN {RxOk(<< >>)} \cup {RxErr(c) : c \in Causes}
            ELSE {})

---------------------------------------------------------------------------
(* A direct call of read_package on a fresh stream, as the unit tests of   *)
(* read_package.rs make it.                                                *)

NoFirst ==
    [mode |-> "none", rxlog |-> << >>, trace |-> << >>, ret |-> NoRet]

FrameInit ==
    /\ buf = ZeroBuf
    /\ package = << >>
    /\ needed = PAYLOAD_SIZE - Len(package)
    /\ body = [lo |-> 0, hi |-> 0]
    /\ ret = NoRet
    /\ rxlog = << >>
    /\ dropped = {}
    /\ pkgPos = << >>
    /\ trace = << >>
    /\ first = NoFirst

NoVal ==
    [kind |-> "None"]

CodecIdle ==
    /\ cp = << >>
    /\ cres = [fn |-> "none", byte |-> 0, ok |-> FALSE, val |-> NoVal]

NoOp ==
    [kind |-> "none", packet |-> << >>, i |-> 0, running |-> FALSE,
     last |-> "None", cause |-> 0, calls |-> 0, faults |-> 0,
     wire |-> << >>, flushes |-> 0, flushed |-> 0]

NoFut ==
    [state |-> "none", blocks |-> 0, final |-> "never", value |-> 0,
     woken |-> FALSE, polls |-> 0, calls |-> 0, out |-> NoVal]

NbIdle ==
    /\ op = NoOp
    /\ fut = NoFut

Init ==
    /\ pc = "outer_read"
    /\ caller = "direct"
    /\ txres = NoRet
    /\ txlog = << >>
    /\ FrameInit
    /\ CodecIdle
    /\ NbIdle

Next ==
    \/ \E r \in RxOutcomes : OuterRead(r)
    \/ \E r \in RxOutcomes : InnerRead(r)
    \/ MatchEqual
    \/ MatchLess
    \/ MatchGreater

Spec ==
    Init /\ [][Next]_vars

(* The same call with progress: the stream answers every read and the      *)
(* executor keeps polling the task, so a step that is possible is taken.   *)
SpecLive ==
    Init /\ [][Next]_vars /\ WF_vars(Next)

---------------------------------------------------------------------------
(* The transaction read_co2: write the command, flush, read_package,       *)
(* checksum validation, decode (spec.md section 4.3 and section 7).        *)

TxOutcomes ==
    {0} \cup Causes

TxEnd(v) ==
    /\ txres' = v
    /\ pc' = "done"

(* Write the full command packet to the transport.                         *)
TxWrite(o) ==
    /\ pc = "write"
    /\ txlog' = Append(txlog, "write")
    /\ UNCHANGED << caller, frameVars, codecVars, nbVars >>
    /\ IF o # 0
       THEN TxEnd(ErrRet("WritingToUart", o))
       ELSE /\ pc' = "flush"
            /\ UNCHANGED txres

(* Flush, then invoke the framing reader on the receive side.              *)
TxFlush(o) ==
    /\ pc = "flush"
    /\ txlog' = Append(txlog, "flush")
    /\ UNCHANGED << caller, frameVars, codecVars, nbVars >>
    /\ IF o # 0
       THEN TxEnd(ErrRet("FlushingUart", o))
       ELSE /\ pc' = "outer_read"
            /\ UNCHANGED txres

(* read_package has returned to the transaction.                           *)
TxFramed ==
    /\ pc = "returned"
    /\ caller # "direct"
    /\ txlog' = Append(txlog, "read")
    /\ UNCHANGED << caller, frameVars, codecVars, nbVars >>
    /\ IF ret.kind = "Ok"
       THEN /\ pc' = "checksum"
            /\ UNCHANGED txres
       ELSE TxEnd(ret)

(* Codec validation, first the checksum ...                                *)
TxChecksum ==
    /\ pc = "checksum"
    /\ txlog' = Append(txlog, "checksum")
    /\ UNCHANGED << caller, frameVars, codecVars, nbVars >>
    /\ IF ~checksum_valid(ret.pkt)
       THEN TxEnd(ErrRet("InvalidChecksum", 0))
       ELSE /\ pc' = "decode"
            /\ UNCHANGED txres

(* ... then the discriminator and the decoding.                            *)
TxDecode ==
    /\ pc = "decode"
    /\ txlog' = Append(txlog, "decode")
    /\ UNCHANGED << caller, frameVars, codecVars, nbVars >>
    /\ LET m == Measurement_parse_response(ret.pkt)
       IN  IF m.kind = "Err"
           THEN TxEnd(ErrRet(m.err, 0))
           ELSE TxEnd([kind |-> "Ok", pkt |-> ret.pkt, err |-> "", cause |-> 0])

(* The responses the sensor side of the explored transactions sends: the   *)
(* packets of the tests of measurement.rs, whole or cut in two.            *)
RESP_GOOD ==
    << 255, 134, 1, 0, 0, 0, 0, 0, 121 >>

RESP_BAD_SUM ==
    << 255, 134, 1, 0, 0, 0, 0, 0, 120 >>

RESP_BAD_CMD ==
    << 255, 135, 1, 0, 0, 0, 0, 0, 120 >>

RESP_BAD_BOTH ==
    << 255, 135, 1, 0, 0, 0, 0, 0, 121 >>

TxCut ==
    4

TxnChunks ==
    UNION {{q, SubSeq(q, 1, TxCut), SubSeq(q, TxCut + 1, PAYLOAD_SIZE)} :
              q \in {RESP_GOOD, RESP_BAD_SUM, RESP_BAD_CMD, RESP_BAD_BOTH}}

TxnRxOutcomes ==
    {RxOk(c) : c \in IF Len(rxlog) < MaxChunks THEN TxnChunks ELSE {}}
      \cup (IF Len(rxlog) <= MaxChunks
            THEN {RxOk(<< >>)} \cup {RxErr(c) : c \in Causes}
            ELSE {})

TxnInit ==
    /\ pc = "write"
    /\ caller = "read_co2"
    /\ txres = NoRet
    /\ txlog = << >>
    /\ FrameInit
    /\ CodecIdle
    /\ NbIdle

TxnNext ==
    \/ \E o \in TxOutcomes : TxWrite(o)
    \/ \E o \in TxOutcomes : TxFlush(o)
    \/ \E r \in TxnRxOutcomes : OuterRead(r)
    \/ \E r \in TxnRxOutcomes : InnerRead(r)
    \/ MatchEqual
    \/ MatchLess
    \/ MatchGreater
    \/ TxFramed
    \/ TxChecksum
    \/ TxDecode

SpecTxn ==
    TxnInit /\ [][TxnNext]_vars

---------------------------------------------------------------------------
(* One packet delivered in pieces: every way of cutting a 9-byte packet    *)
(* into consecutive non-empty reads, nothing before it.                    *)

SplitBytes(pos) ==
    IF pos = 0 THEN {START_MARKER} ELSE {Filler(pos), 0}

RECURSIVE SplitChunksFrom(_, _)
SplitChunksFrom(pos, n) ==
    IF n = 0
    THEN {<< >>}
    ELSE {<<b>> \o t : b \in SplitBytes(pos), t \in SplitChunksFrom(pos + 1, n - 1)}

SplitRxOutcomes ==
    {RxOk(c) : c \in UNION {SplitChunksFrom(Len(Stream), n) :
                              n \in 1 .. (PAYLOAD_SIZE - Len(Stream))}}

SplitNext ==
    \/ \E r \in SplitRxOutcomes : OuterRead(r)
    \/ \E r \in SplitRxOutcomes : InnerRead(r)
    \/ MatchEqual
    \/ MatchLess

SpecSplit ==
    Init /\ [][SplitNext]_vars

---------------------------------------------------------------------------
(* A burst: the first read delivers k back-to-back packets, 2 <= k <= 5,   *)
(* and the stream delivers nothing else. Each packet may carry one more    *)
(* 0xFF among its bytes 1..8.                                              *)

BurstPacket(base, extra) ==
    [i \in 1 .. PAYLOAD_SIZE |->
        IF i = 1 \/ i = extra + 1 THEN START_MARKER ELSE Filler(base + i - 1)]

(* Where the additional 0xFF of a packet lies (0: the packet has none).     *)
BurstExtras ==
    {0, 1, 5, PAYLOAD_SIZE - 1}

RECURSIVE Bursts(_)
Bursts(k) ==
    IF k = 0
    THEN {<< >>}
    ELSE {h \o BurstPacket(Len(h), e) : h \in Bursts(k - 1), e \in BurstExtras}

BurstRxOutcomes ==
    IF Len(rxlog) = 0
    THEN {RxOk(c) : c \in UNION {Bursts(k) : k \in 2 .. BUF_FACTOR}}
    ELSE {RxOk(<< >>)}

BurstNext ==
    \/ \E r \in BurstRxOutcomes : OuterRead(r)
    \/ \E r \in BurstRxOutcomes : InnerRead(r)
    \/ MatchEqual
    \/ MatchLess

SpecBurst ==
    Init /\ [][BurstNext]_vars

---------------------------------------------------------------------------
(* The codec functions applied to packets: the packets of the tests and    *)
(* the two commands, with up to MaxEdits bytes replaced.                   *)

READ_CO2 ==
    << 255, 1, 134, 0, 0, 0, 0, 0, 121 >>

(* Mutation: the checksum byte is the one of READ_CO2.                     *)
READ_RAW_CO2_CopiedSum ==
    << 255, 1, 133, 0, 0, 0, 0, 0, 121 >>

READ_RAW_CO2 ==
    << 255, 1, 133, 0, 0, 0, 0, 0, 122 >>

MaxEdits ==
    2

CodecBytes ==
    {0, 1, 128, 133, 255}

RECURSIVE Edited(_, _)
Edited(base, k) ==
    IF k = 0
    THEN base
    ELSE LET prev == Edited(base, k - 1)
         IN  prev \cup {[q EXCEPT ![i] = v] :
                          q \in prev, i \in 1 .. PAYLOAD_SIZE, v \in CodecBytes}

(* byte0 is not 0xFF: the last packet of tests::parse_measurement          *)
RESP_BAD_START ==
    << 254, 134, 1, 0, 0, 0, 0, 0, 121 >>

CodecPackets ==
    Edited({RESP_GOOD, RESP_BAD_CMD, RESP_BAD_START, READ_CO2, READ_RAW_CO2},
           MaxEdits)

NoCres ==
    [fn |-> "none", byte |-> 0, ok |-> FALSE, val |-> NoVal]

CodecInit ==
    /\ pc = "codec"
    /\ caller = "direct"
    /\ txres = NoRet
    /\ txlog = << >>
    /\ FrameInit
    /\ cp \in CodecPackets
    /\ cres = NoCres
    /\ NbIdle

ApplyChecksum ==
    /\ pc = "codec"
    /\ cres.fn = "none"
    /\ cres' = [fn |-> "checksum", byte |-> checksum(cp), ok |-> FALSE,
                val |-> NoVal]
    /\ UNCHANGED << pc, caller, txres, txlog, frameVars, nbVars, cp >>

ApplyChecksumValid ==
    /\ pc = "codec"
    /\ cres.fn = "none"
    /\ cres' = [fn |-> "checksum_valid", byte |-> 0, ok |-> checksum_valid(cp),
                val |-> NoVal]
    /\ UNCHANGED << pc, caller, txres, txlog, frameVars, nbVars, cp >>

ApplyParse ==
    /\ pc = "codec"
    /\ cres.fn = "none"
    /\ cres' = [fn |-> "parse", byte |-> 0, ok |-> FALSE,
                val |-> Measurement_parse_response(cp)]
    /\ UNCHANGED << pc, caller, txres, txlog, frameVars, nbVars, cp >>

ApplyParseRaw ==
    /\ pc = "codec"
    /\ cres.fn = "none"
    /\ cres' = [fn |-> "parse_raw", byte |-> 0, ok |-> FALSE,
                val |-> RawMeasurement_parse_response(cp)]
    /\ UNCHANGED << pc, caller, txres, txlog, frameVars, nbVars, cp >>

ApplyPacketChecksum ==
    /\ pc = "codec"
    /\ cres.fn = "none"
    /\ cres' = [fn |-> "Packet_checksum", byte |-> Packet_checksum(cp),
                ok |-> Packet_checksum_valid(cp), val |-> NoVal]
    /\ UNCHANGED << pc, caller, txres, txlog, frameVars, nbVars, cp >>

ApplyTryFrom ==
    /\ pc = "codec"
    /\ cres.fn = "none"
    /\ cres' = [fn |-> "try_from", byte |-> 0, ok |-> FALSE,
                val |-> Measurement_try_from(cp)]
    /\ UNCHANGED << pc, caller, txres, txlog, frameVars, nbVars, cp >>

ApplyTryFromRaw ==
    /\ pc = "codec"
    /\ cres.fn = "none"
    /\ cres' = [fn |-> "try_from_raw", byte |-> 0, ok |-> FALSE,
                val |-> RawMeasurement_try_from(cp)]
    /\ UNCHANGED << pc, caller, txres, txlog, frameVars, nbVars, cp >>

(* tests::packet_checksum: a packet found valid has its byte i replaced    *)
(* (there by corrupted[i].wrapping_add(1)) and is validated again.         *)
CorruptValues(b) ==
    (CodecBytes \cup {WrappingAdd(b, 1)}) \ {b}

Corrupt(i, b) ==
    /\ pc = "codec"
    /\ cres.fn = "checksum_valid"
    /\ cres.ok
    /\ cp' = [cp EXCEPT ![i + 1] = b]
    /\ cres' = [fn |-> "corrupted", byte |-> i, ok |-> checksum_valid(cp'),
                val |-> NoVal]
    /\ UNCHANGED << pc, caller, txres, txlog, frameVars, nbVars >>

CodecNext ==
    \/ ApplyChecksum
    \/ ApplyChecksumValid
    \/ ApplyParse
    \/ ApplyParseRaw
    \/ ApplyPacketChecksum
    \/ ApplyTryFrom
    \/ ApplyTryFromRaw
    \/ \E i \in 1 .. (PAYLOAD_SIZE - 2) :
          \E b \in CorruptValues(cp[i + 1]) : Corrupt(i, b)

SpecCodec ==
    CodecInit /\ [][CodecNext]_vars

---------------------------------------------------------------------------
(* Sensor::write_packet_op and Sensor::read_packet_op: the closures poll   *)
(* a non-blocking uart. op.i is the captured index, op.packet the captured *)
(* packet; op.wire (the bytes the uart accepted or delivered), op.flushes, *)
(* op.flushed, op.calls and op.faults are history.                         *)

(* WouldBlock and Other results of the uart over one run.                  *)
MaxBlocks ==
    3

MaxCalls ==
    MaxBlocks + 2

(* Values the uart delivers to read().                                     *)
UartBytes ==
    {1, START_MARKER}

UartOk(b) ==
    [kind |-> "Ok", byte |-> b, cause |-> 0]

UartWouldBlock ==
    [kind |-> "WouldBlock", byte |-> 0, cause |-> 0]

UartOther(c) ==
    [kind |-> "Other", byte |-> 0, cause |-> c]

UartFaults ==
    {UartWouldBlock} \cup {UartOther(c) : c \in Causes}

UartUnit ==
    {UartOk(0)} \cup UartFaults

UartReads ==
    {UartOk(b) : b \in UartBytes} \cup UartFaults

(* Packet::default()                                                       *)
DefaultPacket ==
    [k \in 1 .. PAYLOAD_SIZE |-> 0]

WriteOp(packet) ==
    [NoOp EXCEPT !.kind = "write", !.packet = packet]

ReadOp ==
    [NoOp EXCEPT !.kind = "read", !.packet = DefaultPacket]

(* Mutation: the index is a local of the closure body, reset by each call. *)
WriteIndexAtCall_Restart(i) ==
    0

(* let mut i = 0usize; move || ...: the index outlives a call.             *)
WriteIndexAtCall(i) ==
    i

(* Mutation: the index is a local of the closure body, reset by each call. *)
ReadIndexAtCall_Restart(i) ==
    0

ReadIndexAtCall(i) ==
    i

(* The `?` after a uart call: a WouldBlock or Other result ends the call.  *)
OpFault(r) ==
    /\ op.faults < MaxBlocks
    /\ op' = [op EXCEPT !.running = FALSE, !.last = r.kind, !.cause = r.cause,
                        !.faults = @ + 1]

(* The caller (block!, a poll) invokes the closure.                        *)
OpCall ==
    /\ pc = "sensor"
    /\ ~op.running
    /\ op.calls < MaxCalls
    /\ op' = [op EXCEPT !.running = TRUE, !.calls = @ + 1,
                        !.i = IF op.kind = "write" THEN WriteIndexAtCall(@)
                                                   ELSE ReadIndexAtCall(@)]
    /\ UNCHANGED << pc, caller, txres, txlog, frameVars, codecVars, fut >>

(* while i < PAYLOAD_SIZE { self.uart.write(packet.0[i])?; i += 1; }       *)
UartWrite(r) ==
    /\ pc = "sensor"
    /\ op.running
    /\ op.kind = "write"
    /\ op.i < PAYLOAD_SIZE
    /\ IF r.kind = "Ok"
       THEN op' = [op EXCEPT !.wire = Append(@, op.packet[op.i + 1]),
                             !.i = @ + 1]
       ELSE OpFault(r)
    /\ UNCHANGED << pc, caller, txres, txlog, frameVars, codecVars, fut >>

(* self.uart.flush()                                                       *)
UartFlush(r) ==
    /\ pc = "sensor"
    /\ op.running
    /\ op.kind = "write"
    /\ ~(op.i < PAYLOAD_SIZE)
    /\ IF r.kind = "Ok"
       THEN op' = [op EXCEPT !.running = FALSE, !.last = "Ok", !.cause = 0,
                             !.flushes = @ + 1, !.flushed = @ + 1]
       ELSE /\ op.faults < MaxBlocks
            /\ op' = [op EXCEPT !.running = FALSE, !.last = r.kind,
                                !.cause = r.cause, !.faults = @ + 1,
                                !.flushes = @ + 1]
    /\ UNCHANGED << pc, caller, txres, txlog, frameVars, codecVars, fut >>

(* while i < PAYLOAD_SIZE { packet.0[i] = self.uart.read()?; i += 1; }     *)
UartRead(r) ==
    /\ pc = "sensor"
    /\ op.running
    /\ op.kind = "read"
    /\ op.i < PAYLOAD_SIZE
    /\ IF r.kind = "Ok"
       THEN op' = [op EXCEPT !.packet[op.i + 1] = r.byte,
                             !.wire = Append(@, r.byte),
                             !.i = @ + 1]
       ELSE OpFault(r)
    /\ UNCHANGED << pc, caller, txres, txlog, frameVars, codecVars, fut >>

(* Ok(()) after the loop of read_packet_op                                 *)
ReadDone ==
    /\ pc = "sensor"
    /\ op.running
    /\ op.kind = "read"
    /\ ~(op.i < PAYLOAD_SIZE)
    /\ op' = [op EXCEPT !.running = FALSE, !.last = "Ok", !.cause = 0]
    /\ UNCHANGED << pc, caller, txres, txlog, frameVars, codecVars, fut >>

SensorInit ==
    /\ pc = "sensor"
    /\ caller = "direct"
    /\ txres = NoRet
    /\ txlog = << >>
    /\ FrameInit
    /\ CodecIdle
    /\ op \in {WriteOp(READ_CO2), WriteOp(READ_RAW_CO2), ReadOp}
    /\ fut = NoFut

SensorNext ==
    \/ OpCall
    \/ \E r \in UartUnit : UartWrite(r)
    \/ \E r \in UartUnit : UartFlush(r)
    \/ \E r \in UartReads : UartRead(r)
    \/ ReadDone

SpecSensor ==
    SensorInit /\ [][SensorNext]_vars

---------------------------------------------------------------------------
(* nb_fn: the future polls f; fut.blocks is the number of WouldBlock       *)
(* results f gives before fut.final, fut.calls the calls of f so far.      *)

MaxPending ==
    7

MaxPolls ==
    MaxPending + 2

FutValues ==
    {0, 1, 121, START_MARKER}

(* What the k-th call of f returns (k counted from 0).                     *)
FResult(k) ==
    IF fut.final = "never" \/ k < fut.blocks
    THEN [kind |-> "WouldBlock", value |-> 0]
    ELSE [kind |-> fut.final, value |-> fut.value]

(* Mutation: the waker is left alone on WouldBlock.                        *)
WakeByRef_Skipped(w) ==
    w

(* ctx.waker().wake_by_ref()                                               *)
WakeByRef(w) ==
    TRUE

(* The executor polls the task it was woken for; the closure of poll_fn    *)
(* calls f once and maps its result.                                       *)
Poll ==
    /\ pc = "future"
    /\ fut.state = "pending"
    /\ fut.woken
    /\ fut.polls < MaxPolls
    /\ LET r == FResult(fut.calls)
           base == [fut EXCEPT !.polls = @ + 1, !.calls = @ + 1,
                               !.woken = FALSE]
       IN  fut' = CASE r.kind = "Ok" ->
                         [base EXCEPT !.state = "ready",
                                      !.out = [kind |-> "Ok", value |-> r.value]]
                    [] r.kind = "Other" ->
                         [base EXCEPT !.state = "ready",
                                      !.out = [kind |-> "Err", value |-> r.value]]
                    [] OTHER ->
                         [base EXCEPT !.woken = WakeByRef(@)]
    /\ UNCHANGED << pc, caller, txres, txlog, frameVars, codecVars, op >>

FutureInit ==
    /\ pc = "future"
    /\ caller = "direct"
    /\ txres = NoRet
    /\ txlog = << >>
    /\ FrameInit
    /\ CodecIdle
    /\ op = NoOp
    /\ \E b \in 0 .. MaxPending :
          \E f \in ({"Ok"} \X FutValues) \cup ({"Other"} \X Causes)
                     \cup {<< "never", 0 >>} :
             fut = [NoFut EXCEPT !.state = "pending", !.blocks = b,
                                 !.final = f[1], !.value = f[2],
                                 !.woken = TRUE]

FutureNext ==
    Poll

(* A task whose waker was woken is polled again by the executor.           *)
SpecFuture ==
    FutureInit /\ [][FutureNext]_vars /\ WF_vars(Poll)

---------------------------------------------------------------------------
(* Two invocations of read_package, one after the other. The first runs on *)
(* chunks of the family of Spec and ends by returning or by being dropped  *)
(* at one of its reads; the second starts with fresh locals and is given   *)
(* the reads of the first again, either byte for byte ("same") or with     *)
(* every byte other than 0xFF replaced by another value ("masked").        *)

(* Non-empty chunks the first invocation may read.                         *)
MaxReplay ==
    2

(* Another byte value for every byte that is not a start marker.           *)
Recode(b) ==
    IF b = START_MARKER THEN b ELSE 254 - b

ReplayOf(r, mode) ==
    IF r.kind = "Ok" /\ mode = "masked"
    THEN RxOk([i \in 1 .. Len(r.bytes) |-> Recode(r.bytes[i])])
    ELSE r

TwiceRxOutcomes ==
    IF first.mode = "none"
    THEN {RxOk(c) : c \in IF Len(rxlog) < MaxReplay THEN Chunks ELSE {}}
           \cup (IF Len(rxlog) <= MaxReplay
                 THEN {RxOk(<< >>)} \cup {RxErr(c) : c \in Causes}
                 ELSE {})
    ELSE IF Len(rxlog) < Len(first.rxlog)
         THEN {ReplayOf(first.rxlog[Len(rxlog) + 1], first.mode)}
         ELSE {}

(* Mutation: the scratch buffer outlives the invocation (a static).        *)
FreshBuf_Kept(bf) ==
    bf

(* let mut buf = [0u8; 5 * PAYLOAD_SIZE]                                   *)
FreshBuf(bf) ==
    ZeroBuf

(* The first invocation has returned, or its future is dropped while it    *)
(* waits in a read; read_package is then called again: line 21-23.         *)
CallAgain(mode) ==
    /\ first.mode = "none"
    /\ pc \in {"returned", "outer_read", "inner_read"}
    /\ ret.kind # "Panic"
    /\ Len(rxlog) >= 1
    /\ first' = [mode |-> mode, rxlog |-> rxlog, trace |-> trace, ret |-> ret]
    /\ pc' = "outer_read"
    /\ buf' = FreshBuf(buf)
    /\ package' = << >>
    /\ needed' = PAYLOAD_SIZE - Len(package')
    /\ body' = [lo |-> 0, hi |-> 0]
    /\ ret' = NoRet
    /\ rxlog' = << >>
    /\ dropped' = {}
    /\ pkgPos' = << >>
    /\ trace' = << >>
    /\ UNCHANGED << caller, txres, txlog, codecVars, nbVars >>

TwiceNext ==
    \/ \E r \in TwiceRxOutcomes : OuterRead(r)
    \/ \E r \in TwiceRxOutcomes : InnerRead(r)
    \/ MatchEqual
    \/ MatchLess
    \/ MatchGreater
    \/ \E mode \in {"same", "masked"} : CallAgain(mode)

SpecTwice ==
    Init /\ [][TwiceNext]_vars

---------------------------------------------------------------------------
(* Shorthands for the properties                                           *)

HasMarker(s) ==
    \E i \in 1 .. Len(s) : s[i] = START_MARKER

LastRx ==
    rxlog[Len(rxlog)]

HasReturned ==
    pc \in {"returned", "checksum", "decode", "done"}

(* The latest read delivered a non-empty chunk without a start marker.     *)
ReadsMarkerlessChunk ==
    /\ Len(rxlog') = Len(rxlog) + 1
    /\ rxlog'[Len(rxlog')].kind = "Ok"
    /\ Len(rxlog'[Len(rxlog')].bytes) > 0
    /\ ~HasMarker(rxlog'[Len(rxlog')].bytes)

IsFullPacketChunk(c) ==
    /\ Len(c) = PAYLOAD_SIZE
    /\ c[1] = START_MARKER
    /\ ~HasMarker(SubSeq(c, 2, PAYLOAD_SIZE))

---------------------------------------------------------------------------
(* C2: whenever read_package returns Ok(p), p has exactly 9 bytes, p[0] is *)
(* 0xFF and p is 9 consecutive bytes of the stream, in stream order.       *)
C2_OkPacketIsAligned ==
    ret.kind = "Ok" =>
        /\ Len(ret.pkt) = PAYLOAD_SIZE
        /\ ret.pkt[1] = START_MARKER
        /\ \E j \in 0 .. (Len(Stream) - PAYLOAD_SIZE) :
              ret.pkt = SubSeq(Stream, j + 1, j + PAYLOAD_SIZE)

(* C3: whenever read_package returns Ok(p), p[0] is the last 0xFF the      *)
(* stream delivered up to the read that completed p: no 0xFF was delivered *)
(* after it.                                                               *)
C3_LatestMarkerWins ==
    ret.kind = "Ok" =>
        /\ Len(pkgPos) = PAYLOAD_SIZE
        /\ Stream[pkgPos[1] + 1] = START_MARKER
        /\ \A j \in (pkgPos[1] + 2) .. Len(Stream) : Stream[j] # START_MARKER

(* C5: a read that returns 0 bytes ends read_package with ReadingEOF, with *)
(* or without a partial candidate; no packet is returned.                  *)
C5_ZeroReadIsEof ==
    \A i \in 1 .. Len(rxlog) :
        (rxlog[i].kind = "Ok" /\ Len(rxlog[i].bytes) = 0) =>
            /\ i = Len(rxlog)
            /\ HasReturned
            /\ ret = ErrRet("ReadingEOF", 0)

C5_Witness ==
    /\ ret = ErrRet("ReadingEOF", 0)
    /\ Len(package) = 4
    /\ package[1] = START_MARKER
    /\ Len(rxlog) = 2

(* C6: whenever the body is longer than needed, the candidate is emptied   *)
(* and needed is reset to 9; no byte thrown away then is part of a packet  *)
(* returned later, and an end of stream after it gives ReadingEOF.         *)
C6_StaleCandidateDiscarded ==
    /\ [][(pc = "match" /\ BodyLen(body) > needed) =>
            (package' = << >> /\ needed' = PAYLOAD_SIZE
             /\ SeqToSet(pkgPos) \subseteq dropped')]_vars
    /\ [](ret.kind = "Ok" => SeqToSet(pkgPos) \cap dropped = {})
    /\ []((dropped # {} /\ LastRx.kind = "Ok" /\ Len(LastRx.bytes) = 0)
            => ret = ErrRet("ReadingEOF", 0))

C6_Witness ==
    /\ ret.kind = "Ok"
    /\ \E q \in dropped : Stream[q + 1] = START_MARKER
    /\ Cardinality(dropped) > PAYLOAD_SIZE

(* C7: with an empty candidate, a chunk without 0xFF is consumed and       *)
(* ignored (the reader goes on to the next read with an empty candidate),  *)
(* and a later chunk that is one full packet is returned unchanged.        *)
C7_MarkerlessChunksIgnored ==
    /\ [][(pc = "outer_read" /\ ReadsMarkerlessChunk) =>
            (pc' = "outer_read" /\ package' = << >> /\ needed' = PAYLOAD_SIZE
             /\ ret' = NoRet)]_vars
    /\ []((pc = "returned" /\ Len(rxlog) > 1
           /\ \A i \in 1 .. (Len(rxlog) - 1) : ~HasMarker(rxlog[i].bytes)
           /\ IsFullPacketChunk(LastRx.bytes))
            => ret = OkRet(LastRx.bytes))

(* C8: a failed read, wherever it happens, ends read_package at once with  *)
(* Reading(cause): it is the last read issued and no packet is returned.   *)
C8_ReadErrorPropagates ==
    \A i \in 1 .. Len(rxlog) :
        rxlog[i].kind = "Err" =>
            /\ i = Len(rxlog)
            /\ HasReturned
            /\ ret = ErrRet("Reading", rxlog[i].cause)

C8_Witness ==
    /\ Len(rxlog) = 3
    /\ LastRx.kind = "Err"
    /\ LastRx.cause = 2
    /\ ~HasMarker(rxlog[1].bytes)
    /\ Len(package) > 0
    /\ ret.kind = "Err"

---------------------------------------------------------------------------
(* C1 as stated: when the first read delivers k back-to-back packets and   *)
(* nothing else, read_package returns Ok(Pk), the last of them, whatever   *)
(* the bytes 1..8 of the packets are.                                      *)
IsBurst(c) ==
    /\ Len(c) % PAYLOAD_SIZE = 0
    /\ Len(c) >= 2 * PAYLOAD_SIZE
    /\ \A k \in 0 .. ((Len(c) \div PAYLOAD_SIZE) - 1) :
          c[k * PAYLOAD_SIZE + 1] = START_MARKER

LastPacketOf(c) ==
    SubSeq(c, Len(c) - PAYLOAD_SIZE + 1, Len(c))

C1_BurstReturnsLast_AnyBytes ==
    (HasReturned /\ IsBurst(rxlog[1].bytes)) =>
        ret = OkRet(LastPacketOf(rxlog[1].bytes))

(* C1 amended: when the first read delivers k back-to-back packets and the *)
(* last packet has no 0xFF among its bytes 1..8, read_package returns      *)
(* Ok(Pk) from that read alone, whatever the bytes of P1..Pk-1 are.        *)
C1_BurstReturnsLast ==
    (Len(rxlog) >= 1 /\ IsBurst(rxlog[1].bytes)
       /\ ~HasMarker(SubSeq(LastPacketOf(rxlog[1].bytes), 2, PAYLOAD_SIZE))) =>
        /\ Len(rxlog) = 1
        /\ pc \in {"match", "returned"}
        /\ pc = "match" => (BodyLen(body) = needed /\ package = << >>)
        /\ pc = "returned" => ret = OkRet(LastPacketOf(rxlog[1].bytes))

C1_Witness ==
    /\ pc = "returned"
    /\ Len(rxlog[1].bytes) = BufLen
    /\ ret = OkRet(LastPacketOf(rxlog[1].bytes))
    /\ HasMarker(SubSeq(rxlog[1].bytes, 2, PAYLOAD_SIZE))

(* C4: a packet P with P[0] = 0xFF and no other 0xFF, delivered alone and  *)
(* cut into non-empty reads in any way, is returned as Ok(P); every        *)
(* partial read appends all its bytes and lowers needed by their number.   *)
C4_ChunkingIndependence ==
    (Len(rxlog) >= 1 /\ Len(Stream) <= PAYLOAD_SIZE
       /\ Stream[1] = START_MARKER
       /\ ~HasMarker(SubSeq(Stream, 2, Len(Stream)))
       /\ \A i \in 1 .. Len(rxlog) : rxlog[i].kind = "Ok" /\ Len(rxlog[i].bytes) > 0) =>
        /\ ret.kind \in {"None", "Ok"}
        /\ pc \in {"match", "inner_read", "returned"}
        /\ pc = "inner_read" =>
              (package = Stream /\ needed = PAYLOAD_SIZE - Len(Stream))
        /\ pc = "returned" => ret = OkRet(Stream)
        /\ Len(Stream) = PAYLOAD_SIZE => pc \in {"match", "returned"}

C4_Witness ==
    /\ Len(rxlog) = PAYLOAD_SIZE
    /\ ret = OkRet(Stream)
    /\ ret.pkt[1] = START_MARKER
    /\ ret.pkt[PAYLOAD_SIZE] = Filler(PAYLOAD_SIZE - 1)

(* C9: a transaction runs write, flush, framing read, checksum validation, *)
(* decode in this order, each at most once, and ends at the first failing  *)
(* step with that step's error: a wrong checksum gives InvalidChecksum     *)
(* whatever the discriminator is, InvalidPacket is given only for a        *)
(* packet whose checksum is right.                                         *)
TxOrder ==
    << "write", "flush", "read", "checksum", "decode" >>

StepOfError(e) ==
    CASE e = "WritingToUart" -> "write"
      [] e = "FlushingUart" -> "flush"
      [] e \in {"Reading", "ReadingEOF"} -> "read"
      [] e = "InvalidChecksum" -> "checksum"
      [] e = "InvalidPacket" -> "decode"
      [] OTHER -> "none"

ByteSum(p) ==
    p[2] + p[3] + p[4] + p[5] + p[6] + p[7] + p[8]

SumIsZero(p) ==
    (ByteSum(p) + p[9]) % 256 = 0

C9_TransactionOrder ==
    /\ Len(txlog) <= Len(TxOrder)
    /\ txlog = SubSeq(TxOrder, 1, Len(txlog))
    /\ (pc = "done" /\ txres.kind = "Err") =>
          txlog[Len(txlog)] = StepOfError(txres.err)
    /\ (pc = "done" /\ txres.kind = "Ok") => txlog = TxOrder
    /\ (pc = "done" /\ ret.kind = "Ok" /\ ~SumIsZero(ret.pkt)) =>
          txres = ErrRet("InvalidChecksum", 0)
    /\ (pc = "done" /\ txres.err = "InvalidChecksum") =>
          (ret.kind = "Ok" /\ ~SumIsZero(ret.pkt))
    /\ (pc = "done" /\ txres.err = "InvalidPacket") =>
          (ret.kind = "Ok" /\ SumIsZero(ret.pkt) /\ ret.pkt[2] # 134)
    /\ (pc = "done" /\ txres.kind = "Ok") =>
          (ret.kind = "Ok" /\ SumIsZero(ret.pkt) /\ ret.pkt[2] = 134)

C9_Witness ==
    /\ pc = "done"
    /\ ret = OkRet(RESP_BAD_BOTH)
    /\ txres = ErrRet("InvalidChecksum", 0)
    /\ Len(rxlog) = 2

(* C10: checksum(p) is the 8-bit two's-complement negation of the sum of   *)
(* p[1]..p[7]; it does not depend on p[0] or p[8]; negating it again gives *)
(* the byte sum; checksum_valid(p) holds exactly when p[1]+...+p[8] is 0   *)
(* modulo 256.                                                             *)
C10_ChecksumIsNegatedSum ==
    /\ cres.fn = "checksum" =>
          /\ cres.byte = ((255 - (ByteSum(cp) % 256)) + 1) % 256
          /\ (cres.byte + ByteSum(cp)) % 256 = 0
          /\ ((255 - cres.byte) + 1) % 256 = ByteSum(cp) % 256
          /\ \A b \in 0 .. 255 :
                /\ checksum([cp EXCEPT ![1] = b]) = cres.byte
                /\ checksum([cp EXCEPT ![9] = b]) = cres.byte
    /\ cres.fn = "checksum_valid" => (cres.ok <=> SumIsZero(cp))

C10_Witness ==
    /\ cres.fn = "checksum"
    /\ ByteSum(cp) > 256
    /\ cp[1] # START_MARKER
    /\ cres.byte # cp[9]
    /\ cres.byte > 0

---------------------------------------------------------------------------
(* C11: in a packet with a valid checksum, replacing any one of the bytes  *)
(* 1..7 by a different value gives a packet whose checksum is not valid.   *)
C11_SingleByteCorruptionDetected ==
    /\ cres.fn = "corrupted" => ~cres.ok
    /\ (cres.fn = "checksum_valid" /\ cres.ok) =>
          \A i \in 1 .. (PAYLOAD_SIZE - 2) :
             \A b \in (0 .. 255) \ {cp[i + 1]} :
                ~checksum_valid([cp EXCEPT ![i + 1] = b])

C11_Witness ==
    /\ cres.fn = "corrupted"
    /\ cres.byte = PAYLOAD_SIZE - 2
    /\ cp[PAYLOAD_SIZE - 1] = 128
    /\ cp[2] = 0
    /\ ~cres.ok

(* C12: Measurement::parse_response(p) is Ok exactly when p[0] = 0xFF and  *)
(* p[1] = 0x86, and Err(InvalidPacket) otherwise; the checksum byte and    *)
(* the validity of the checksum play no part.                              *)
C12_ParseChecksHeaderOnly ==
    cres.fn = "parse" =>
        /\ cres.val.kind = "Ok" <=> (cp[1] = 255 /\ cp[2] = 134)
        /\ cres.val.kind # "Ok" => cres.val = [kind |-> "Err", err |-> "InvalidPacket"]
        /\ \A b \in 0 .. 255 :
              Measurement_parse_response([cp EXCEPT ![PAYLOAD_SIZE] = b]).kind
                 = cres.val.kind

C12_Witness ==
    /\ cres.fn = "parse"
    /\ cres.val.kind = "Ok"
    /\ ~SumIsZero(cp)
    /\ cp[PAYLOAD_SIZE] = 255

(* C13 as stated: the packet FF 86 01 00 00 00 00 00 79 has a valid        *)
(* checksum and decodes to co2 256, temp 1, calib_ticks 0, calib_cycles 0. *)
C13_GoodPacketDecodes_Temp1 ==
    cp = RESP_GOOD =>
        /\ cres.fn = "checksum_valid" => cres.ok
        /\ cres.fn = "parse" =>
              cres.val = [kind |-> "Ok", co2 |-> 256, temp |-> 1,
                          calib_ticks |-> 0, calib_cycles |-> 0]

(* C13 amended: the packet FF 86 01 00 00 00 00 00 79 has a valid checksum *)
(* and decodes to co2 256, temp 0, calib_ticks 0, calib_cycles 0.          *)
C13_GoodPacketDecodes ==
    cp = RESP_GOOD =>
        /\ cres.fn = "checksum_valid" => cres.ok
        /\ cres.fn = "parse" =>
              cres.val = [kind |-> "Ok", co2 |-> 256, temp |-> 0,
                          calib_ticks |-> 0, calib_cycles |-> 0]

C13_Witness ==
    /\ cp = RESP_GOOD
    /\ cres.fn = "parse"
    /\ cres.val.kind = "Ok"
    /\ cres.val.co2 = 256

(* C14: for a packet with header FF 86 the decoded fields are              *)
(* co2 = p[2]*256 + p[3], temp = p[4], calib_ticks = p[5],                 *)
(* calib_cycles = p[6]; writing the fields back gives bytes 2..6 again;    *)
(* bytes 7 and 8 do not influence the decoded value.                       *)
EncodeMeasurement(m) ==
    << m.co2 \div 256, m.co2 % 256, m.temp, m.calib_ticks, m.calib_cycles >>

C14_DecodeRoundTrip ==
    (cres.fn = "parse" /\ cp[1] = 255 /\ cp[2] = 134) =>
        /\ cres.val.kind = "Ok"
        /\ cres.val.co2 = cp[3] * 256 + cp[4]
        /\ cres.val.co2 \in 0 .. 65535
        /\ cres.val.temp = cp[5]
        /\ cres.val.calib_ticks = cp[6]
        /\ cres.val.calib_cycles = cp[7]
        /\ EncodeMeasurement(cres.val) = SubSeq(cp, 3, 7)
        /\ \A b \in 0 .. 255 :
              /\ Measurement_parse_response([cp EXCEPT ![8] = b]) = cres.val
              /\ Measurement_parse_response([cp EXCEPT ![9] = b]) = cres.val

C14_Witness ==
    /\ cres.fn = "parse"
    /\ cres.val.kind = "Ok"
    /\ cres.val.co2 > 256
    /\ cres.val.co2 % 256 # 0
    /\ cres.val.temp # 0

(* C15: RawMeasurement::parse_response(p) is Ok exactly when p[0] = 0xFF   *)
(* and p[1] = 0x85, Err(InvalidPacket) otherwise, whatever the checksum;   *)
(* on Ok adc_temp = p[2]*256+p[3], co2 = p[4]*256+p[5],                    *)
(* adc_min_light = p[6]*256+p[7]. No packet is accepted by both decoders.  *)
C15_RawParse ==
    /\ cres.fn = "parse_raw" =>
          /\ cres.val.kind = "Ok" <=> (cp[1] = 255 /\ cp[2] = 133)
          /\ cres.val.kind # "Ok" =>
                cres.val = [kind |-> "Err", err |-> "InvalidPacket"]
          /\ cres.val.kind = "Ok" =>
                /\ cres.val.adc_temp = cp[3] * 256 + cp[4]
                /\ cres.val.co2 = cp[5] * 256 + cp[6]
                /\ cres.val.adc_min_light = cp[7] * 256 + cp[8]
          /\ \A b \in 0 .. 255 :
                RawMeasurement_parse_response([cp EXCEPT ![PAYLOAD_SIZE] = b])
                   = cres.val
          /\ cres.val.kind = "Ok" => Measurement_parse_response(cp).kind = "Err"
    /\ (cres.fn = "parse" /\ cres.val.kind = "Ok") =>
          RawMeasurement_parse_response(cp).kind = "Err"

C15_Witness ==
    /\ cres.fn = "parse_raw"
    /\ cres.val.kind = "Ok"
    /\ ~SumIsZero(cp)
    /\ cres.val.adc_temp >= 256
    /\ cres.val.adc_min_light > 0

(* C16: READ_CO2 and READ_RAW_CO2 start with 0xFF, have a valid checksum   *)
(* and are accepted by neither decoder (their byte 1 is 0x01).             *)
C16_CommandsWellFormed ==
    cp \in {READ_CO2, READ_RAW_CO2} =>
        /\ Len(cp) = PAYLOAD_SIZE
        /\ cp[1] = START_MARKER
        /\ cp[2] = 1
        /\ cp[3] \in {133, 134}
        /\ cres.fn = "checksum" => cres.byte = cp[PAYLOAD_SIZE]
        /\ cres.fn = "checksum_valid" => cres.ok
        /\ cres.fn \in {"parse", "parse_raw"} =>
              cres.val = [kind |-> "Err", err |-> "InvalidPacket"]

C16_Witness ==
    /\ cp = READ_RAW_CO2
    /\ cres.fn = "checksum_valid"
    /\ cres.ok

(* C17: over any run of calls of the closure of write_packet_op, with      *)
(* WouldBlock or errors from write and flush, the bytes the uart accepted  *)
(* are packet[0..i] in order, each once; flush is called only after all 9  *)
(* bytes were accepted; Ok is returned only when a flush succeeded; a      *)
(* blocked or failed call step does not advance the index.                 *)
C17_WriteOpResumable ==
    /\ [](op.kind = "write" =>
            /\ op.i <= PAYLOAD_SIZE
            /\ op.wire = SubSeq(op.packet, 1, op.i)
            /\ op.flushes > 0 => op.wire = op.packet
            /\ op.last = "Ok" => (op.flushed > 0 /\ op.wire = op.packet)
            /\ op.flushed <= op.flushes)
    /\ [][(op.kind = "write" /\ op'.faults > op.faults) =>
            (op'.i = op.i /\ op'.wire = op.wire /\ op'.last # "Ok"
             /\ ~op'.running)]_vars

C17_Witness ==
    /\ op.kind = "write"
    /\ op.last = "Ok"
    /\ ~op.running
    /\ op.wire = READ_RAW_CO2
    /\ op.faults >= 2
    /\ op.flushes >= 2
    /\ op.calls >= 3

(* C18: over any run of calls of the closure of read_packet_op, with       *)
(* WouldBlock or errors from read, Ok is returned only after exactly 9     *)
(* successful reads, packet[k] is the k-th byte read, and the stored bytes *)
(* are unchanged by a call that blocks or fails.                           *)
C18_ReadOpResumable ==
    /\ [](op.kind = "read" =>
            /\ op.i = Len(op.wire)
            /\ Len(op.wire) <= PAYLOAD_SIZE
            /\ \A k \in 1 .. PAYLOAD_SIZE :
                  op.packet[k] = IF k <= Len(op.wire) THEN op.wire[k] ELSE 0
            /\ op.last = "Ok" => Len(op.wire) = PAYLOAD_SIZE)
    /\ [][(op.kind = "read" /\ op'.faults > op.faults) =>
            (op'.packet = op.packet /\ op'.i = op.i /\ op'.wire = op.wire
             /\ op'.last # "Ok" /\ ~op'.running)]_vars

C18_Witness ==
    /\ op.kind = "read"
    /\ op.last = "Ok"
    /\ ~op.running
    /\ op.faults >= 2
    /\ op.packet[1] = START_MARKER
    /\ op.packet[2] = 1
    /\ op.packet[PAYLOAD_SIZE] = START_MARKER

(* C19: the future of nb_fn(f) calls f once per poll, becomes ready with   *)
(* the first result of f that is not WouldBlock (Ok(v) as Ok(v), Other(e)  *)
(* as Err(e)), wakes its waker whenever it returns Pending, and completes  *)
(* when f eventually returns something other than WouldBlock.              *)
C19_NbFnResolves ==
    /\ [](fut.state # "none" =>
            /\ fut.calls = fut.polls
            /\ (fut.state = "pending" /\ fut.polls > 0) => fut.woken
            /\ fut.state = "pending" => fut.out = NoVal
            /\ fut.state = "ready" =>
                  /\ fut.final # "never"
                  /\ fut.calls = fut.blocks + 1
                  /\ fut.out = [kind |-> IF fut.final = "Ok" THEN "Ok" ELSE "Err",
                                value |-> fut.value])
    /\ (fut.state = "pending" /\ fut.final # "never") ~> (fut.state = "ready")

C19_Witness ==
    /\ fut.state = "ready"
    /\ fut.polls >= 3
    /\ fut.out = [kind |-> "Ok", value |-> 1]

(* C20: the scan made after a read with an empty candidate considers only  *)
(* the n bytes of that read: the body it selects starts at a 0xFF inside   *)
(* the delivered chunk, and a byte left in the scratch buffer beyond index *)
(* n by an earlier read neither starts a candidate nor ends the call.      *)
C20_ScanWithinRead ==
    [][(/\ pc = "outer_read"
        /\ Len(rxlog') = Len(rxlog) + 1
        /\ rxlog'[Len(rxlog')].kind = "Ok"
        /\ Len(rxlog'[Len(rxlog')].bytes) > 0) =>
          (/\ ret'.kind # "Panic"
           /\ pc' = "match" =>
                 /\ body'.hi = Len(rxlog'[Len(rxlog')].bytes)
                 /\ body'.lo < body'.hi
                 /\ rxlog'[Len(rxlog')].bytes[body'.lo + 1] = START_MARKER)]_vars

(* The last PAYLOAD_SIZE bytes of the body, as the Greater branch takes    *)
(* them.                                                                   *)
WindowBytes ==
    SubSeq(buf, Max(body.lo, body.hi - PAYLOAD_SIZE) + 1, body.hi)

TakesGreater ==
    pc = "match" /\ BodyLen(body) > needed

C22_TruncatedRescan ==
    [][TakesGreater =>
         /\ pc' = "match" =>
               /\ body'.lo >= body.hi - PAYLOAD_SIZE
               /\ BodyLen(body') <= PAYLOAD_SIZE
               /\ BodyLen(body') >= 1
               /\ ~(BodyLen(body') > needed')
         /\ ~HasMarker(WindowBytes) =>
               /\ pc' = "outer_read"
               /\ \A k \in body.lo .. (body.hi - 1) : (CurBase + k) \in dropped'
         /\ pc' \in {"match", "outer_read"}]_vars

C22_Witness ==
    /\ pc = "outer_read"
    /\ package = << >>
    /\ Len(rxlog) = 2
    /\ LastRx.kind = "Ok"
    /\ Len(LastRx.bytes) > PAYLOAD_SIZE
    /\ HasMarker(LastRx.bytes)
    /\ \A k \in 1 .. Len(LastRx.bytes) : (CurBase + k - 1) \in dropped

(* C23: while the loops run, package.len() + needed = 9, package holds at  *)
(* most 8 bytes and needed is between 1 and 9; at every stream read issued *)
(* from the top of the outer loop the candidate is empty and needed = 9.   *)
C23_NeededComplementsPackage ==
    pc \in {"outer_read", "match", "inner_read"} =>
        /\ Len(package) + needed = PAYLOAD_SIZE
        /\ Len(package) \in 0 .. (PAYLOAD_SIZE - 1)
        /\ needed \in 1 .. PAYLOAD_SIZE
        /\ pc = "outer_read" => (package = << >> /\ needed = PAYLOAD_SIZE)

C23_Witness ==
    /\ pc = "inner_read"
    /\ Len(package) = PAYLOAD_SIZE - 1
    /\ needed = 1
    /\ dropped # {}

(* C28: Packet::checksum of lib.rs equals checksum of measurement.rs;      *)
(* TryFrom<Packet> for Measurement (for RawMeasurement) succeeds exactly   *)
(* when checksum_valid holds and parse_response of the same type succeeds, *)
(* with the same field values, and gives InvalidResponse for a wrong       *)
(* checksum, a wrong discriminator or a byte 0 other than 0xFF.            *)
C28_CodecsAgree ==
    /\ cres.fn = "Packet_checksum" =>
          /\ cres.byte = checksum(cp)
          /\ cres.ok = checksum_valid(cp)
    /\ cres.fn = "try_from" =>
          /\ cres.val.kind = "Ok" <=>
                (checksum_valid(cp) /\ Measurement_parse_response(cp).kind = "Ok")
          /\ cres.val.kind = "Ok" => cres.val = Measurement_parse_response(cp)
          /\ cres.val.kind # "Ok" => cres.val = InvalidResponse(cp)
          /\ (cp[1] # START_MARKER \/ cp[2] # 134 \/ ~SumIsZero(cp)) =>
                cres.val.kind = "Err"
    /\ cres.fn = "try_from_raw" =>
          /\ cres.val.kind = "Ok" <=>
                (checksum_valid(cp) /\ RawMeasurement_parse_response(cp).kind = "Ok")
          /\ cres.val.kind = "Ok" => cres.val = RawMeasurement_parse_response(cp)
          /\ cres.val.kind # "Ok" => cres.val = InvalidResponse(cp)
          /\ (cp[1] # START_MARKER \/ cp[2] # 133 \/ ~SumIsZero(cp)) =>
                cres.val.kind = "Err"

C28_Witness ==
    /\ cres.fn = "try_from_raw"
    /\ cres.val.kind = "Ok"
    /\ cres.val.adc_temp = 256
    /\ cp[PAYLOAD_SIZE] = 122

(* C26: read_package never panics: the slice buf[offset..n] is taken with  *)
(* offset <= n, every extend_from_slice fits the candidate and into_array  *)
(* is called on a full candidate only, so every run ends in Ok or Err.     *)
C26_NeverPanics ==
    /\ ret.kind # "Panic"
    /\ pc = "match" => (body.lo <= body.hi /\ body.hi <= BufLen)
    /\ pc = "returned" => ret.kind \in {"Ok", "Err"}

(* Non-empty chunks delivered so far.                                      *)
ChunksDelivered ==
    Cardinality({i \in 1 .. Len(rxlog) :
                    rxlog[i].kind = "Ok" /\ Len(rxlog[i].bytes) > 0})

(* C27: on a stream of finitely many non-empty chunks followed by 0 or an  *)
(* error read_package eventually returns (Ok or Err); it issues at most    *)
(* one read more than there are chunks; a pass of the inner loop that does *)
(* not return or read is a Greater transition, and is followed by a pass   *)
(* that is not one.                                                        *)
C27_Terminates ==
    /\ <>(pc = "returned" /\ ret.kind \in {"Ok", "Err"})
    /\ [](Len(rxlog) <= ChunksDelivered + 1)
    /\ [][(pc = "match" /\ pc' = "match") =>
            (TakesGreater /\ ~(BodyLen(body') > needed'))]_vars

(* The second invocation has so far gone through the control states the    *)
(* first went through on the same reads.                                   *)
FollowsFirst ==
    /\ Len(trace) <= Len(first.trace)
    /\ trace = SubSeq(first.trace, 1, Len(trace))

CaughtUp ==
    Len(rxlog) = Len(first.rxlog) /\ Len(trace) = Len(first.trace)

(* C24: for two streams with the same chunk lengths and the same positions *)
(* of 0xFF, read_package goes through the same transitions and returns the *)
(* packet at the same stream position, or the same error; every byte of a  *)
(* returned packet is the stream's byte at that position, whatever its     *)
(* checksum or discriminator.                                              *)
C24_BlindToContent ==
    first.mode = "masked" =>
        /\ FollowsFirst
        /\ CaughtUp =>
              /\ ret.kind = first.ret.kind
              /\ ret.err = first.ret.err
              /\ ret.cause = first.ret.cause
              /\ ret.kind = "Ok" =>
                    /\ Len(pkgPos) = PAYLOAD_SIZE
                    /\ \A k \in 1 .. PAYLOAD_SIZE :
                          /\ ret.pkt[k] = Stream[pkgPos[k] + 1]
                          /\ ret.pkt[k] = Recode(first.ret.pkt[k])

C24_Witness ==
    /\ first.mode = "masked"
    /\ CaughtUp
    /\ ret.kind = "Ok"
    /\ ret.pkt # first.ret.pkt
    /\ ret.pkt[1] = START_MARKER
    /\ ret.pkt[2] \notin {133, 134}
    /\ ~checksum_valid(ret.pkt)
    /\ ~checksum_valid(first.ret.pkt)
    /\ Len(rxlog) = 2

(* C25: every invocation starts with an empty candidate, needed = 9 and a  *)
(* zeroed scratch buffer, and an invocation made after one that returned   *)
(* (Ok or an error) or was abandoned at a read behaves, on the same reads, *)
(* as that earlier, first invocation did: nothing is carried over.         *)
C25_NoStateBetweenCalls ==
    /\ [](Len(rxlog) = 0 =>
            (pc = "outer_read" /\ buf = ZeroBuf /\ package = << >>
             /\ needed = PAYLOAD_SIZE /\ ret = NoRet))
    /\ [](first.mode = "same" =>
            /\ FollowsFirst
            /\ CaughtUp => (ret = first.ret /\ first.rxlog = rxlog))
    /\ [][(first.mode = "none" /\ first'.mode # "none") =>
            (/\ buf' = ZeroBuf
             /\ package' = << >>
             /\ needed' = PAYLOAD_SIZE
             /\ trace' = << >>)]_vars

C25_Witness ==
    /\ first.mode = "same"
    /\ first.ret.kind = "None"
    /\ Len(first.rxlog) = 2
    /\ CaughtUp
    /\ pc = "inner_read"
    /\ Len(package) > 0

===========================================================================
